---- MODULE Spec2Model ----
(***************************************************************************)
(* PrintPal UI engine: the node tree (UIComponent), hit-testing, event     *)
(* emission, property animations, and the UIManager's screen registry and  *)
(* input routing, as state machines translated from src/printpal/core.     *)
(***************************************************************************)
EXTENDS Integers, Sequences, FiniteSets, TLC

\* ------------------------------------------------------------------ bounds
NumNodes == 3
NumScreens == 2
NumHandlers == 2
MaxChildren == 2
MaxZ == 1
MaxItems == 1
MaxRegistrations == 2
MaxAnimations == 2
MaxTime == 3
MaxWidgets == 1
MaxTasks == 2
MaxLate == 2
MaxGrid == 3

\* Python's None, as the value of a reference that refers to nothing.
None == 0

Nodes == 1 .. NumNodes
NodeOrNone == Nodes \cup {None}

\* The UIScreen objects; screen s owns the root node s.
Screens == 1 .. NumScreens
ScreenOrNone == Screens \cup {None}

\* The callables registered as event handlers.
Handlers == 1 .. NumHandlers

VARIABLES
    parent,             \* [Nodes -> NodeOrNone]   UIComponent.parent
    children,           \* [Nodes -> Seq(Nodes)]   UIComponent.children
    visible,            \* [Nodes -> BOOLEAN]      UIComponent.visible
    enabled,            \* [Nodes -> BOOLEAN]      UIComponent.enabled
    z_index,            \* [Nodes -> 0..MaxZ]      UIComponent.z_index
    event_handlers,     \* [Nodes -> [EventKeys -> Seq(Handlers)]]
    screens,            \* [ScreenNames -> ScreenOrNone]   UIManager.screens
    current_screen,     \* ScreenOrNone            UIManager.current_screen
    previous_screen,    \* ScreenOrNone            UIManager.previous_screen
    focused_component,  \* NodeOrNone              UIManager.focused_component
    is_active,          \* [Screens -> BOOLEAN]    UIScreen.is_active
    props,              \* [Nodes -> [Props -> value]]   the animated attributes
    animations,         \* [Nodes -> Seq(descriptor)]    UIComponent.animations
    animation_progress, \* [Nodes -> 0 .. Second - 1]    UIComponent.animation_progress
    now,                \* the reading of time.time()
    started,            \* the number of animate calls made
    screen_name,        \* [Screens -> ScreenNames]      UIScreen.name
    initialized,        \* [Screens -> BOOLEAN]          UIScreen.initialized
    built,              \* [Screens -> BOOLEAN]   the attributes initialize creates exist
    updated,            \* [Screens -> BOOLEAN]   UIScreen.update has been called
    fields,             \* [Screens -> record]    the data attributes of the screen
    animation_running,  \* BOOLEAN                UIManager.animation_running
    display_callback,   \* BOOLEAN                UIManager.display_callback is set
    animation_thread,   \* TaskOrNone             UIManager.animation_thread
    task_pc,            \* [Tasks -> position]    where each frame-loop thread is
    tick_log,           \* [Tasks -> Seq(step)]   what each thread's current tick did
    since_tick,         \* [Tasks -> 0 .. MaxLate]  time since the thread's tick began
    ticked,             \* [Tasks -> BOOLEAN]     the thread has begun a tick before
    stop_pending,       \* [Tasks -> BOOLEAN]     a stop cleared the flag since the thread's last check
    stop_state,         \* the position of the caller of stop_animation_loop
    updating,           \* where a stepwise _update_animations call is, and what it holds
    trace,              \* the calls the last operation made, in order
    last                \* the last operation called and what it returned

treeVars == <<parent, children>>
flagVars == <<visible, enabled, z_index>>
managerVars == <<screens, current_screen, previous_screen, focused_component, is_active>>
animVars == <<props, animations, animation_progress, now, started>>
screenVars == <<screen_name, initialized, built, updated, fields>>
loopVars == <<animation_running, display_callback, animation_thread, task_pc,
              tick_log, since_tick, ticked, stop_pending, stop_state>>
vars == <<parent, children, visible, enabled, z_index, event_handlers, screens,
          current_screen, previous_screen, focused_component, is_active,
          props, animations, animation_progress, now, started,
          screen_name, initialized, built, updated, fields,
          animation_running, display_callback, animation_thread, task_pc,
          tick_log, since_tick, ticked, stop_pending, stop_state, updating,
          trace, last>>

\* ------------------------------------------------------------ sequences
Range(s) == {s[i] : i \in 1 .. Len(s)}

Reverse(s) == [i \in 1 .. Len(s) |-> s[Len(s) + 1 - i]]

\* list.remove(x): drops the first occurrence of x.
RemoveFirst(s, x) ==
    LET i == CHOOSE k \in 1 .. Len(s) : s[k] = x /\ \A j \in 1 .. k - 1 : s[j] # x
    IN  [k \in 1 .. Len(s) - 1 |-> IF k < i THEN s[k] ELSE s[k + 1]]

\* ------------------------------------------------------------- geometry
UIRect(px, py, w, h) == [x |-> px, y |-> py, width |-> w, height |-> h]

right(r) == r.x + r.width

bottom(r) == r.y + r.height

contains(r, px, py) ==
    /\ r.x <= px /\ px <= right(r)
    /\ r.y <= py /\ py <= bottom(r)

\* The rectangle each node is constructed with.  A screen's root spans the
\* whole display (UIScreen.__init__); the other nodes overlap it and one
\* another, and reach beyond it.
RectOf(n) ==
    CASE n \in Screens -> UIRect(0, 0, 2, 1)
      [] n % 2 = 1 -> UIRect(1, 0, 2, 0)
      [] OTHER -> UIRect(0, 0, 1, 1)

\* The points input is delivered at: inside the display and outside it.
Points == {<<0, 0>>, <<1, 0>>, <<1, 1>>, <<3, 0>>}

\* ------------------------------------------------------------ node tree
RECURSIVE Descendants(_)
Descendants(n) ==
    Range(children[n]) \cup UNION {Descendants(c) : c \in Range(children[n])}

\* The record of a call: the operation, the node or screen it was called on,
\* its arguments, the node it returned, and how it ended.
NoCall ==
    [op |-> "none", node |-> None, arg |-> None, event |-> "", x |-> 0, y |-> 0,
     result |-> None, status |-> "returned"]

Call(op, n, a) == [NoCall EXCEPT !.op = op, !.node = n, !.arg = a]

\* child.parent = self; self.children.append(child).  Callers never hand in
\* the node itself or one of its ancestors: every traversal of the tree
\* (update, render, hit_test) recurses without end on a cycle.
add_child(p, c) ==
    /\ Len(children[p]) < MaxChildren
    /\ c # p /\ p \notin Descendants(c)
    /\ parent' = [parent EXCEPT ![c] = p]
    /\ children' = [children EXCEPT ![p] = Append(@, c)]
    /\ last' = Call("add_child", p, c)
    /\ trace' = <<>>
    /\ UNCHANGED <<screenVars, loopVars, animVars, flagVars, updating, event_handlers, managerVars>>

remove_child(p, c) ==
    /\ IF c \in Range(children[p])
       THEN /\ parent' = [parent EXCEPT ![c] = None]
            /\ children' = [children EXCEPT ![p] = RemoveFirst(@, c)]
       ELSE UNCHANGED treeVars
    /\ last' = Call("remove_child", p, c)
    /\ trace' = <<>>
    /\ UNCHANGED <<screenVars, loopVars, animVars, flagVars, updating, event_handlers, managerVars>>

\* A node no call has touched yet: what a constructor has just returned.
Fresh(n) ==
    /\ parent[n] = None
    /\ children[n] = <<>>
    /\ \A q \in Nodes : n \notin Range(children[q])

FreshNodes == {n \in Nodes : Fresh(n)}

\* The item lists a menu rebuild can build from the nodes still unused: each
\* item is a new container and the new label it is given.
ItemLists ==
    {items \in UNION {[1 .. k -> FreshNodes \X FreshNodes] : k \in 0 .. MaxItems} :
        /\ \A i \in 1 .. Len(items) : items[i][1] # items[i][2]
        /\ \A i, j \in 1 .. Len(items) :
              i # j => {items[i][1], items[i][2]} \cap {items[j][1], items[j][2]} = {}}

ItemOf(items, n) == CHOOSE i \in 1 .. Len(items) : n \in {items[i][1], items[i][2]}

\* MenuScreen._update_menu: menu_list.children.clear(), then one container
\* per menu item, each given its label (item_container.add_child(label)) and
\* appended to the list (menu_list.add_child(item_container)).
update_menu(p, items) ==
    /\ \A i \in 1 .. Len(items) : p \notin {items[i][1], items[i][2]}
    /\ children' = [n \in Nodes |->
          IF n = p THEN [i \in 1 .. Len(items) |-> items[i][1]]
          ELSE IF \E i \in 1 .. Len(items) : items[i][1] = n
               THEN <<items[ItemOf(items, n)][2]>>
               ELSE children[n]]
    /\ parent' = [n \in Nodes |->
          IF \E i \in 1 .. Len(items) : items[i][1] = n THEN p
          ELSE IF \E i \in 1 .. Len(items) : items[i][2] = n
               THEN items[ItemOf(items, n)][1]
               ELSE parent[n]]
    /\ last' = Call("update_menu", p, Len(items))
    /\ trace' = <<>>
    /\ UNCHANGED <<screenVars, loopVars, animVars, flagVars, updating, event_handlers, managerVars>>

\* ------------------------------------------------------------- hit test
\* sorted(children, key=lambda c: c.z_index): a stable sort, written as the
\* insertion of each element behind every element whose key is not larger.
InsertByZ(sortedSeq, c) ==
    LET k == Cardinality({i \in 1 .. Len(sortedSeq) : z_index[sortedSeq[i]] <= z_index[c]})
    IN  SubSeq(sortedSeq, 1, k) \o <<c>> \o SubSeq(sortedSeq, k + 1, Len(sortedSeq))

RECURSIVE sorted(_)
sorted(s) ==
    IF s = <<>> THEN <<>>
    ELSE InsertByZ(sorted(SubSeq(s, 1, Len(s) - 1)), s[Len(s)])

\* The children in ascending z_index, without the reversal.
HitOrderAscending(n) == sorted(children[n])

\* The order hit_test tries the children in.
HitOrder(n) == Reverse(sorted(children[n]))

RECURSIVE hit_test(_, _, _)
hit_test(n, px, py) ==
    IF ~visible[n] \/ ~enabled[n] THEN None
    ELSE IF contains(RectOf(n), px, py)
    THEN LET order == HitOrder(n)
             results == [i \in 1 .. Len(order) |-> hit_test(order[i], px, py)]
             found == {i \in 1 .. Len(order) : results[i] # None}
         IN  IF found # {}
             THEN results[CHOOSE i \in found : \A j \in found : i <= j]
             ELSE n
    ELSE None

\* A call of hit_test from outside, on any node and point.
HitTestCall(n, pt) ==
    /\ last' = [Call("hit_test", n, None) EXCEPT
                   !.x = pt[1], !.y = pt[2], !.result = hit_test(n, pt[1], pt[2])]
    /\ trace' = <<>>
    /\ UNCHANGED <<screenVars, loopVars, animVars, treeVars, flagVars, updating, event_handlers, managerVars>>

\* --------------------------------------------------------------- events
\* The keys handlers are registered and emitted under: members of the
\* UIEvent enum the manager imports (core/events.py), and the plain string
\* 'click' that main.py and the widgets pass.  A string equals no member.
EnumKeys == {"CLICK", "LONG_PRESS", "ROTATE_CW", "FOCUS", "BLUR"}

EventKeys == EnumKeys \cup {"'click'"}

\* What a registered callable does when called: handlers of even number
\* raise an Exception, the others return.
HandlerRaises(h) == h % 2 = 0

Entry(what, target, event, handler, focus) ==
    [what |-> what, target |-> target, event |-> event, handler |-> handler,
     focus |-> focus]

\* The number of handler registrations made so far.
Registrations ==
    Cardinality({t \in Nodes \X EventKeys \X (1 .. MaxRegistrations) :
                    t[3] <= Len(event_handlers[t[1]][t[2]])})

\* UIComponent.on: self.event_handlers[event].append(handler).
on(n, key, h) ==
    /\ event_handlers' = [event_handlers EXCEPT ![n][key] = Append(@, h)]
    /\ last' = [Call("on", n, h) EXCEPT !.event = key]
    /\ trace' = <<>>
    /\ UNCHANGED <<screenVars, loopVars, animVars, treeVars, flagVars, updating, managerVars>>

\* The loop without its try/except: the first raising handler ends it.
RECURSIVE RunHandlersNoCatch(_)
RunHandlersNoCatch(hs) ==
    IF hs = <<>> THEN [calls |-> <<>>, status |-> "returned"]
    ELSE IF HandlerRaises(Head(hs)) THEN [calls |-> <<Head(hs)>>, status |-> "raised"]
    ELSE LET rest == RunHandlersNoCatch(Tail(hs))
         IN  [calls |-> <<Head(hs)>> \o rest.calls, status |-> rest.status]

\* The loop of UIComponent.emit over one handler list: each handler is called
\* inside try/except Exception, so a raising handler is logged and the loop
\* goes on; the loop ends normally.
RECURSIVE RunHandlers(_)
RunHandlers(hs) ==
    IF hs = <<>> THEN [calls |-> <<>>, status |-> "returned"]
    ELSE LET rest == RunHandlers(Tail(hs))
         IN  [calls |-> <<Head(hs)>> \o rest.calls, status |-> rest.status]

\* UIComponent.emit(event), called while the manager's focus is `focus`: the
\* calls it makes, and whether it returns or lets an exception out.
emit(n, key, focus) ==
    LET r == RunHandlers(event_handlers[n][key])
    IN  [entries |->
            <<Entry("emit", n, key, None, focus)>> \o
            [i \in 1 .. Len(r.calls) |->
                Entry(IF HandlerRaises(r.calls[i]) THEN "handler_error" ELSE "handler",
                      n, key, r.calls[i], focus)],
         status |-> r.status]

\* A call of emit from outside (a widget emitting its own event).
EmitCall(n, key) ==
    LET r == emit(n, key, focused_component)
    IN  /\ trace' = r.entries
        /\ last' = [Call("emit", n, None) EXCEPT !.event = key, !.status = r.status]
        /\ UNCHANGED <<screenVars, loopVars, animVars, treeVars, flagVars, updating, event_handlers, managerVars>>

\* -------------------------------------------------------------- manager
\* The name each screen is constructed with (UIScreen.name).
ScreenName(s) == screen_name[s]

\* The names the screen classes of the package pass to UIScreen.__init__.
ScreenNames == {"menu", "temperature", "progress", "settings"}

\* The names switch_screen is called with.
SwitchNames == ScreenNames \cup {"nonexistent"}

\* UIManager.register_screen: self.screens[screen.name] = screen.
register_screen(s) ==
    /\ screens' = [screens EXCEPT ![ScreenName(s)] = s]
    /\ last' = Call("register_screen", s, None)
    /\ trace' = <<>>
    /\ UNCHANGED <<screenVars, loopVars, animVars, treeVars, flagVars, updating, event_handlers, current_screen,
                   previous_screen, focused_component, is_active>>

\* switch_screen without the notification of the screen it leaves.
SwitchResultNoExit(name, transition) ==
    IF screens[name] = None
    THEN [current |-> current_screen, previous |-> previous_screen,
          active |-> is_active, status |-> "returned",
          calls |-> <<Entry("print_not_found", None, name, None, focused_component)>>]
    ELSE [current |-> screens[name],
          previous |-> IF current_screen # None THEN current_screen
                       ELSE previous_screen,
          active |-> [is_active EXCEPT ![screens[name]] = TRUE],
          status |-> "returned",
          calls |-> <<Entry("on_enter", screens[name], name, None, focused_component)>>]

\* switch_screen notifying the current screen before it looks the name up.
SwitchResultExitFirst(name, transition) ==
    [current |-> IF screens[name] = None THEN current_screen ELSE screens[name],
     previous |-> IF current_screen # None THEN current_screen ELSE previous_screen,
     active |-> [s \in Screens |->
                   IF screens[name] = s THEN TRUE
                   ELSE IF s = current_screen THEN FALSE ELSE is_active[s]],
     status |-> "returned",
     calls |-> (IF current_screen # None
                THEN <<Entry("on_exit", current_screen, name, None, focused_component)>>
                ELSE <<>>) \o
               (IF screens[name] = None
                THEN <<Entry("print_not_found", None, name, None, focused_component)>>
                ELSE <<Entry("on_enter", screens[name], name, None, focused_component)>>)]

\* switch_screen entering the target before the old screen has exited.
SwitchResultEnterFirst(name, transition) ==
    IF screens[name] = None
    THEN [current |-> current_screen, previous |-> previous_screen,
          active |-> is_active, status |-> "returned",
          calls |-> <<Entry("print_not_found", None, name, None, focused_component)>>]
    ELSE LET target == screens[name]
             entered == [is_active EXCEPT ![target] = TRUE]
         IN  [current |-> target,
              previous |-> IF current_screen # None THEN current_screen
                           ELSE previous_screen,
              active |-> IF current_screen # None
                         THEN [entered EXCEPT ![current_screen] = FALSE]
                         ELSE entered,
              status |-> "returned",
              calls |->
                 <<Entry("on_enter", target, name, None, focused_component)>> \o
                 (IF current_screen # None
                  THEN <<Entry("on_exit", current_screen, name, None, focused_component)>>
                  ELSE <<>>)]

\* The body of UIManager.switch_screen: what it leaves in the manager and
\* the calls it makes.
SwitchResult(name, transition) ==
    IF screens[name] = None
    THEN [current |-> current_screen, previous |-> previous_screen,
          active |-> is_active, status |-> "returned",
          calls |-> <<Entry("print_not_found", None, name, None, focused_component)>>]
    ELSE LET target == screens[name]
             exited == IF current_screen # None
                       THEN [is_active EXCEPT ![current_screen] = FALSE]
                       ELSE is_active
         IN  [current |-> target,
              previous |-> IF current_screen # None THEN current_screen
                           ELSE previous_screen,
              active |-> [exited EXCEPT ![target] = TRUE],
              status |-> "returned",
              calls |->
                 (IF current_screen # None
                  THEN <<Entry("on_exit", current_screen, name, None, focused_component)>>
                  ELSE <<>>) \o
                 <<Entry("on_enter", target, name, None, focused_component)>> \o
                 (IF transition
                  THEN <<Entry("print_transition", None, name, None, focused_component)>>
                  ELSE <<>>)]

switch_screen(name, transition) ==
    LET r == SwitchResult(name, transition)
    IN  /\ current_screen' = r.current
        /\ previous_screen' = r.previous
        /\ is_active' = r.active
        /\ trace' = r.calls
        /\ last' = [Call("switch_screen", None, None) EXCEPT
                       !.event = name, !.status = r.status]
        /\ UNCHANGED <<screenVars, loopVars, animVars, treeVars, flagVars, updating, event_handlers, screens, focused_component>>

\* One emit inside handle_input: it runs unless an exception is already on
\* its way out of the call.
EmitStep(s, n, key) ==
    IF s.status # "returned" THEN s
    ELSE LET r == emit(n, key, s.focus)
         IN  [focus |-> s.focus, trace |-> s.trace \o r.entries, status |-> r.status]

\* The focus bookkeeping with FOCUS emitted before the assignment.
FocusChangeEmitFirst(s, hit) ==
    LET blurred == IF s.focus # None THEN EmitStep(s, s.focus, "BLUR") ELSE s
        focused == IF hit # None THEN EmitStep(blurred, hit, "FOCUS") ELSE blurred
    IN  IF focused.status = "returned" THEN [focused EXCEPT !.focus = hit] ELSE focused

\* The focus bookkeeping of handle_input for a hit that differs from the
\* focused component: BLUR to the old one, the assignment, FOCUS to the new.
FocusChange(s, hit) ==
    LET blurred == IF s.focus # None THEN EmitStep(s, s.focus, "BLUR") ELSE s
        moved == IF blurred.status = "returned"
                 THEN [blurred EXCEPT !.focus = hit] ELSE blurred
    IN  IF moved.focus # None THEN EmitStep(moved, moved.focus, "FOCUS") ELSE moved

\* handle_input returning early, before the screen's handler, when no node
\* was hit.
HandleInputResultHitOnly(event, pt) ==
    LET pointer == event \in {"CLICK", "LONG_PRESS"} /\ pt # <<>>
        hit == IF pointer THEN hit_test(current_screen, pt[1], pt[2]) ELSE None
        s0 == [focus |-> focused_component, trace |-> <<>>, status |-> "returned"]
        s1 == IF pointer /\ hit # focused_component THEN FocusChange(s0, hit) ELSE s0
        s2 == IF pointer /\ hit # None THEN EmitStep(s1, hit, event) ELSE s1
        s3 == IF s2.status = "returned" /\ hit # None
              THEN [s2 EXCEPT !.trace =
                       Append(@, Entry("handle_event", current_screen, event, None, s2.focus))]
              ELSE s2
    IN  [focus |-> s3.focus, trace |-> s3.trace, status |-> s3.status, hit |-> hit,
         tested |-> pointer]

\* The body of UIManager.handle_input with a screen active.  pt is <<x, y>>,
\* or <<>> when the call passes no coordinates.
HandleInputResult(event, pt) ==
    LET pointer == event \in {"CLICK", "LONG_PRESS"} /\ pt # <<>>
        hit == IF pointer THEN hit_test(current_screen, pt[1], pt[2]) ELSE None
        s0 == [focus |-> focused_component, trace |-> <<>>, status |-> "returned"]
        s1 == IF pointer /\ hit # focused_component THEN FocusChange(s0, hit) ELSE s0
        s2 == IF pointer /\ hit # None THEN EmitStep(s1, hit, event) ELSE s1
        s3 == IF s2.status = "returned"
              THEN [s2 EXCEPT !.trace =
                       Append(@, Entry("handle_event", current_screen, event, None, s2.focus))]
              ELSE s2
    IN  [focus |-> s3.focus, trace |-> s3.trace, status |-> s3.status, hit |-> hit,
         tested |-> pointer]

handle_input(event, pt) ==
    /\ IF current_screen = None
       THEN /\ trace' = <<>>
            /\ last' = [Call("handle_input", None, Len(pt)) EXCEPT !.event = event]
            /\ UNCHANGED focused_component
       ELSE LET r == HandleInputResult(event, pt)
            IN  /\ trace' = r.trace
                /\ focused_component' = r.focus
                /\ last' = [Call("handle_input", current_screen, Len(pt)) EXCEPT
                               !.event = event,
                               !.x = IF pt = <<>> THEN 0 ELSE pt[1],
                               !.y = IF pt = <<>> THEN 0 ELSE pt[2],
                               !.result = r.hit,
                               !.status = r.status]
    /\ UNCHANGED <<screenVars, loopVars, animVars, treeVars, flagVars, updating, event_handlers, screens, current_screen,
                   previous_screen, is_active>>

\* The events and coordinates input is delivered with.
InputEvents == {"CLICK", "LONG_PRESS", "ROTATE_CW", "'click'"}

InputPoints == {<<0, 0>>, <<1, 0>>, <<3, 0>>, <<>>}

\* The handler lists the nodes of a screen come with: widgets register their
\* handlers while they are constructed (UIDialog._initialize_dialog).
InputHandlerLists == {<<>>, <<2, 1>>}

\* ----------------------------------------------------------- animations
\* The clock counts half seconds: the float 1.0, a second, is two units.
Second == 2

\* Exact fractions <<numerator, denominator>>, in lowest terms with a
\* positive denominator, stand for the floats.
Abs(i) == IF i < 0 THEN 0 - i ELSE i

RECURSIVE GCD(_, _)
GCD(a, b) == IF b = 0 THEN a ELSE GCD(b, a % b)

Rat(n, d) ==
    LET g == GCD(Abs(n), Abs(d))
        s == IF d < 0 THEN 0 - 1 ELSE 1
    IN  <<(s * n) \div g, (s * d) \div g>>

One == Rat(1, 1)

RAdd(a, b) == Rat(a[1] * b[2] + b[1] * a[2], a[2] * b[2])

RSub(a, b) == Rat(a[1] * b[2] - b[1] * a[2], a[2] * b[2])

RMul(a, b) == Rat(a[1] * b[1], a[2] * b[2])

RGeq(a, b) == a[1] * b[2] >= b[1] * a[2]

\* Attribute values: an int or float, a tuple of them, or no attribute at
\* all (getattr(self, name, None) is None).
Num(i) == [kind |-> "num", v |-> <<Rat(i, 1)>>]

Tup(s) == [kind |-> "tuple", v |-> [i \in 1 .. Len(s) |-> Rat(s[i], 1)]]

Absent == [kind |-> "absent", v |-> <<>>]

\* The attributes animated: a progress bar's value, a label's colour, and a
\* name no component has.
Props == {"value", "color", "opacity"}

InitialProps == [q \in Props |->
    CASE q = "value" -> Num(0) [] q = "color" -> Tup(<<0, 100>>) [] OTHER -> Absent]

\* The arguments animate is called with.
ToValues == {Num(100), Tup(<<100, 0>>)}

Durations == {0 - Second, 0, Second}

Easings == {"linear", "ease_in_quad"}

\* The frame time update is called with: half a second.
FrameTimes == {1}

\* anim['easing'](progress): the default lambda x: x and
\* AnimationPresets.linear return t, AnimationPresets.ease_in_quad t * t.
Ease(easing, t) == IF easing = "ease_in_quad" THEN RMul(t, t) ELSE t

\* min(1.0, elapsed / anim['duration']), for a duration that is not 0.
Progress(elapsed, duration) ==
    LET q == Rat(elapsed, duration)
    IN  IF RGeq(q, One) THEN One ELSE q

\* from_val + (to_val - from_val) * easing.
Lerp(f, t, eased) == RAdd(f, RMul(RSub(t, f), eased))

MinLen(a, b) == IF Len(a) <= Len(b) THEN Len(a) ELSE Len(b)

\* The value an in-flight descriptor gives its attribute: scalars and tuples
\* are interpolated (tuples over zip(from, to)), anything else is left alone.
Interpolate(current, anim, eased) ==
    IF anim.from.kind = "num" /\ anim.to.kind = "num"
    THEN [kind |-> "num", v |-> <<Lerp(anim.from.v[1], anim.to.v[1], eased)>>]
    ELSE IF anim.from.kind = "tuple" /\ anim.to.kind = "tuple"
    THEN [kind |-> "tuple",
          v |-> [i \in 1 .. MinLen(anim.from.v, anim.to.v) |->
                    Lerp(anim.from.v[i], anim.to.v[i], eased)]]
    ELSE current

\* The loop of _update_animations over the descriptors ds, in the order of
\* the dict, at clock reading t: the node's attributes after it, the names
\* in to_remove, and how it ended.  elapsed / duration raises
\* ZeroDivisionError for a duration of 0, and the exception leaves the loop.
RECURSIVE AnimationLoop(_, _, _)
AnimationLoop(ps, ds, t) ==
    IF ds = <<>> THEN [props |-> ps, to_remove |-> {}, status |-> "returned"]
    ELSE LET anim == Head(ds)
             elapsed == t - anim.start_time
         IN  IF anim.duration = 0
             THEN [props |-> ps, to_remove |-> {}, status |-> "ZeroDivisionError"]
             ELSE LET progress == Progress(elapsed, anim.duration)
                      done == RGeq(progress, One)
                      ps1 == IF done
                             THEN [ps EXCEPT ![anim.prop] = anim.to]
                             ELSE [ps EXCEPT ![anim.prop] =
                                      Interpolate(@, anim, Ease(anim.easing, progress))]
                      rest == AnimationLoop(ps1, Tail(ds), t)
                  IN  [rest EXCEPT !.to_remove =
                          IF done THEN @ \cup {anim.prop} ELSE @]

\* del self.animations[prop_name] for every name in to_remove.
RemoveCompleted(ds, to_remove) == SelectSeq(ds, LAMBDA a : a.prop \notin to_remove)

\* UIComponent._update_animations on node n of the state st.
update_animations(st, n, dt, t) ==
    LET loop == AnimationLoop(st.props[n], st.animations[n], t)
        st1 == [st EXCEPT
                   !.animation_progress[n] = (@ + dt) % Second,
                   !.props[n] = loop.props,
                   !.status = loop.status,
                   !.trace = Append(@, Entry("_update_animations", n, "", None, None))]
    IN  IF loop.status = "returned"
        THEN [st1 EXCEPT !.animations[n] = RemoveCompleted(@, loop.to_remove)]
        ELSE st1

\* UIComponent.update: the node's animations if it has any, then the visible
\* children in child order; an exception ends the whole call.
RECURSIVE update(_, _, _, _)
RECURSIVE UpdateChildren(_, _, _, _)
update(st, n, dt, t) ==
    LET st1 == IF st.animations[n] # <<>> THEN update_animations(st, n, dt, t) ELSE st
    IN  IF st1.status = "returned" THEN UpdateChildren(st1, children[n], dt, t) ELSE st1

UpdateChildren(st, cs, dt, t) ==
    IF cs = <<>> \/ st.status # "returned" THEN st
    ELSE UpdateChildren(IF visible[Head(cs)] THEN update(st, Head(cs), dt, t) ELSE st,
                        Tail(cs), dt, t)

\* A call of update from outside (UIScreen.update on the root, or a test).
UpdateCall(n, dt) ==
    LET r == update([props |-> props, animations |-> animations,
                     animation_progress |-> animation_progress,
                     status |-> "returned", trace |-> <<>>], n, dt, now)
    IN  /\ props' = r.props
        /\ animations' = r.animations
        /\ animation_progress' = r.animation_progress
        /\ trace' = r.trace
        /\ last' = [Call("update", n, dt) EXCEPT !.status = r.status]
        /\ UNCHANGED <<screenVars, loopVars, treeVars, flagVars, updating, event_handlers, managerVars, now, started>>

\* self.animations[property_name] = {...}: a key already in the dict keeps
\* its place, a new key goes to the end.
SetKey(ds, d) ==
    IF \E i \in 1 .. Len(ds) : ds[i].prop = d.prop
    THEN [i \in 1 .. Len(ds) |-> IF ds[i].prop = d.prop THEN d ELSE ds[i]]
    ELSE Append(ds, d)

\* UIComponent.animate: nothing for an attribute that is None or missing;
\* otherwise a descriptor from the attribute's current value, stamped with
\* the clock.
animate(n, prop, to, duration, easing) ==
    /\ started < MaxAnimations
    /\ started' = started + 1
    /\ IF props[n][prop] = Absent
       THEN UNCHANGED animations
       ELSE animations' = [animations EXCEPT ![n] =
               SetKey(@, [prop |-> prop, from |-> props[n][prop], to |-> to,
                          duration |-> duration, start_time |-> now,
                          easing |-> easing])]
    /\ last' = [Call("animate", n, duration) EXCEPT !.event = prop]
    /\ trace' = <<>>
    /\ UNCHANGED <<screenVars, loopVars, treeVars, flagVars, updating, event_handlers, managerVars, props,
                   animation_progress, now>>

\* Time passes: time.time() reads half a second later.
Tick ==
    /\ now < MaxTime
    /\ now' = now + 1
    /\ last' = Call("tick", None, None)
    /\ trace' = <<>>
    /\ UNCHANGED <<screenVars, loopVars, treeVars, flagVars, updating, event_handlers, managerVars, props,
                   animations, animation_progress, started>>

\* ------------------------------------------- _update_animations, stepwise
\* _update_animations as the frame-loop thread runs it while another thread
\* calls animate on the same node: the interpreter may switch threads
\* between any two steps below.

\* No _update_animations call is in progress.
IdleUpdate ==
    [phase |-> "idle", node |-> None, pos |-> 0, size |-> 0, current_time |-> 0,
     to_remove |-> <<>>]

\* The call up to `for prop_name, anim in self.animations.items():`, which
\* creates the iterator: it remembers the size of the dict.  update calls
\* _update_animations only for a node that has animations.
UpdateAnimationsBegin(n, dt) ==
    /\ updating.phase = "idle"
    /\ animations[n] # <<>>
    /\ animation_progress' = [animation_progress EXCEPT ![n] = (@ + dt) % Second]
    /\ updating' = [phase |-> "loop", node |-> n, pos |-> 0,
                    size |-> Len(animations[n]), current_time |-> now,
                    to_remove |-> <<>>]
    /\ last' = Call("_update_animations", n, dt)
    /\ trace' = <<>>
    /\ UNCHANGED <<screenVars, loopVars, treeVars, flagVars, event_handlers, managerVars,
                   props, animations, now, started>>

\* One turn of the for loop: the iterator raises RuntimeError if the dict
\* has another size than when the loop began, ends the loop after the last
\* entry, and otherwise hands out the next entry as the dict holds it now,
\* for the loop body to apply.
UpdateAnimationsNext ==
    /\ updating.phase = "loop"
    /\ LET n == updating.node
           ds == animations[n]
       IN  IF Len(ds) # updating.size
           THEN /\ updating' = IdleUpdate
                /\ last' = [Call("_update_animations_next", n, None) EXCEPT
                               !.status = "RuntimeError"]
                /\ UNCHANGED props
           ELSE IF updating.pos = updating.size
           THEN /\ updating' = IF updating.to_remove = <<>> THEN IdleUpdate
                               ELSE [updating EXCEPT !.phase = "remove"]
                /\ last' = Call("_update_animations_next", n, None)
                /\ UNCHANGED props
           ELSE LET anim == ds[updating.pos + 1]
                    elapsed == updating.current_time - anim.start_time
                IN  IF anim.duration = 0
                    THEN /\ updating' = IdleUpdate
                         /\ last' = [Call("_update_animations_next", n, None) EXCEPT
                                        !.status = "ZeroDivisionError"]
                         /\ UNCHANGED props
                    ELSE LET progress == Progress(elapsed, anim.duration)
                             done == RGeq(progress, One)
                         IN  /\ props' = [props EXCEPT ![n][anim.prop] =
                                    IF done THEN anim.to
                                    ELSE Interpolate(@, anim, Ease(anim.easing, progress))]
                             /\ updating' = [updating EXCEPT
                                    !.pos = @ + 1,
                                    !.to_remove = IF done THEN Append(@, anim.prop) ELSE @]
                             /\ last' = [Call("_update_animations_next", n, None) EXCEPT
                                            !.event = anim.prop]
    /\ trace' = <<>>
    /\ UNCHANGED <<screenVars, loopVars, treeVars, flagVars, event_handlers, managerVars,
                   animations, animation_progress, now, started>>

\* One turn of `for prop_name in to_remove: del self.animations[prop_name]`:
\* whatever descriptor the dict holds under the name now is deleted.
UpdateAnimationsRemove ==
    /\ updating.phase = "remove"
    /\ LET n == updating.node
           key == Head(updating.to_remove)
       IN  IF \E d \in Range(animations[n]) : d.prop = key
           THEN /\ animations' = [animations EXCEPT ![n] = RemoveCompleted(@, {key})]
                /\ updating' = IF Tail(updating.to_remove) = <<>> THEN IdleUpdate
                               ELSE [updating EXCEPT !.to_remove = Tail(@)]
                /\ last' = [Call("_update_animations_del", n, None) EXCEPT !.event = key]
           ELSE /\ updating' = IdleUpdate
                /\ last' = [Call("_update_animations_del", n, None) EXCEPT
                               !.event = key, !.status = "KeyError"]
                /\ UNCHANGED animations
    /\ trace' = <<>>
    /\ UNCHANGED <<screenVars, loopVars, treeVars, flagVars, event_handlers, managerVars,
                   props, animation_progress, now, started>>

\* -------------------------------------------------------------- screens
\* The data attributes the screen constructors set (ProgressScreen.__init__,
\* TemperatureScreen.__init__).
InitialFields ==
    [progress |-> Rat(0, 1), filename |-> "", state |-> "READY",
     print_time |-> "00:00:00", remaining_time |-> "00:00:00",
     bed_temp |-> 0, bed_target |-> 0, nozzle_temp |-> 0, nozzle_target |-> 0]

\* An argument left at its default None.
Unset == "<None>"

\* `if filename:` and the like: None and the empty string are false.
Truthy(arg) == arg \notin {Unset, ""}

\* The widgets an initialize hook constructs and adds under the root: nodes
\* no call has touched yet, and no root of a screen.  The base class hook
\* builds nothing.
WidgetLists ==
    {ws \in UNION {[1 .. k -> FreshNodes \ Screens] : k \in 0 .. MaxWidgets} :
        \A i, j \in 1 .. Len(ws) : i # j => ws[i] # ws[j]}

\* The initialize hook of screen s run on the state st: it constructs the
\* widgets ws, keeps the ones it needs later as attributes of the screen, and
\* adds them under the root.  It does not touch `initialized`.
InitializeHook(st, s, ws) ==
    [st EXCEPT
        !.built[s] = TRUE,
        !.children[s] = @ \o ws,
        !.parent = [n \in Nodes |-> IF n \in Range(ws) THEN s ELSE @[n]],
        !.trace = Append(@, Entry("initialize", s, "", None, None))]

\* The state a screen method works on.
ScreenState ==
    [built |-> built, initialized |-> initialized, children |-> children,
     parent |-> parent, fields |-> fields, props |-> props,
     animations |-> animations, animation_progress |-> animation_progress,
     status |-> "returned", trace |-> <<>>]

\* UIScreen.update running the hook on every call, whatever the flag says.
FirstUpdateEveryTime(st, s, ws) ==
    [InitializeHook(st, s, ws) EXCEPT !.initialized[s] = TRUE]

\* `if not self.initialized: self.initialize(); self.initialized = True`.
FirstUpdate(st, s, ws) ==
    IF ~st.initialized[s]
    THEN [InitializeHook(st, s, ws) EXCEPT !.initialized[s] = TRUE]
    ELSE st

\* The screen state st with what root.update returned as r.
RootUpdated(st, r) ==
    [st EXCEPT !.props = r.props, !.animations = r.animations,
               !.animation_progress = r.animation_progress,
               !.status = r.status, !.trace = r.trace]

\* self.root.update(dt).  The nodes the hook has just constructed carry no
\* animation, so the tick has nothing to advance on them.
RootUpdate(st, s, dt) ==
    RootUpdated(st, update([props |-> st.props, animations |-> st.animations,
                            animation_progress |-> st.animation_progress,
                            status |-> "returned",
                            trace |-> Append(st.trace,
                                             Entry("root.update", s, "", None, None))],
                           s, dt, now))

\* The body of UIScreen.update: on the first call the hook and the flag,
\* then root.update(dt).
ScreenUpdateResult(st, s, dt, ws) == RootUpdate(FirstUpdate(st, s, ws), s, dt)

\* A call of UIScreen.update from outside the frame loop (a test).
ScreenUpdate(s, dt, ws) ==
    /\ initialized[s] => ws = <<>>
    /\ \E r \in {ScreenUpdateResult(ScreenState, s, dt, ws)} :
          /\ built' = r.built
          /\ initialized' = r.initialized
          /\ children' = r.children
          /\ parent' = r.parent
          /\ props' = r.props
          /\ animations' = r.animations
          /\ animation_progress' = r.animation_progress
          /\ trace' = r.trace
          /\ last' = [Call("screen_update", s, dt) EXCEPT !.status = r.status]
    /\ updated' = [updated EXCEPT ![s] = TRUE]
    /\ UNCHANGED <<loopVars, flagVars, updating, event_handlers, managerVars, now, started,
                   screen_name, fields>>

\* screen.initialize() called directly, as the tests do.
Initialize(s, ws) ==
    LET r == InitializeHook(ScreenState, s, ws)
    IN  /\ built' = r.built
        /\ children' = r.children
        /\ parent' = r.parent
        /\ trace' = r.trace
        /\ last' = Call("initialize", s, None)
        /\ UNCHANGED <<loopVars, animVars, flagVars, updating, event_handlers, managerVars,
                       screen_name, initialized, updated, fields>>

\* One `if arg:` block of update_progress: the attribute is stored, then the
\* label of the same name is written, which exists only once the hook has run.
StoreAndShow(st, s, field, arg) ==
    IF st.status # "returned" \/ ~Truthy(arg) THEN st
    ELSE [st EXCEPT !.fields[s][field] = arg,
                    !.status = IF st.built[s] THEN "returned" ELSE "AttributeError"]

\* max(0.0, min(1.0, progress)).
Clamp01(q) == IF RGeq(q, One) THEN One ELSE IF RGeq(Rat(0, 1), q) THEN Rat(0, 1) ELSE q

\* The body of ProgressScreen.update_progress.
UpdateProgressResult(st, s, progress, filename, state, elapsed, remaining) ==
    LET st0 == [st EXCEPT !.fields[s].progress = Clamp01(progress)]
        st1 == StoreAndShow(st0, s, "filename", filename)
        st2 == StoreAndShow(st1, s, "state", state)
        st3 == StoreAndShow(st2, s, "print_time", elapsed)
    IN  StoreAndShow(st3, s, "remaining_time", remaining)

update_progress(s, progress, filename, state, elapsed, remaining) ==
    LET r == UpdateProgressResult(ScreenState, s, progress, filename, state,
                                  elapsed, remaining)
    IN  /\ screen_name[s] = "progress"
        /\ fields' = r.fields
        /\ trace' = <<>>
        /\ last' = [Call("update_progress", s,
                         <<progress, filename, state, elapsed, remaining>>)
                       EXCEPT !.status = r.status]
        /\ UNCHANGED <<loopVars, animVars, treeVars, flagVars, updating, event_handlers,
                       managerVars, screen_name, initialized, built, updated>>

\* TemperatureScreen.update_temperatures: the four attributes are stored;
\* the labels and the graph are written only when initialized is set, and
\* then they exist.
update_temperatures(s, temps) ==
    /\ screen_name[s] = "temperature"
    /\ fields' = [fields EXCEPT ![s].bed_temp = temps[1], ![s].bed_target = temps[2],
                                ![s].nozzle_temp = temps[3], ![s].nozzle_target = temps[4]]
    /\ trace' = <<>>
    /\ last' = Call("update_temperatures", s, temps)
    /\ UNCHANGED <<loopVars, animVars, treeVars, flagVars, updating, event_handlers,
                   managerVars, screen_name, initialized, built, updated>>

\* The arguments the data-update methods are called with.
ProgressInputs == {Rat(3, 4), Rat(3, 2)}

FilenameInputs == {Unset, "", "test_print.gcode"}

StateInputs == {Unset, "PRINTING"}

ElapsedInputs == {Unset, "01:30:00"}

RemainingInputs == {Unset, "00:30:00"}

TemperatureInputs == {<<60, 60, 210, 210>>, <<25, 0, 25, 0>>}

\* ----------------------------------------------------------- frame loop
\* The threads start_animation_loop can create.
Tasks == 1 .. MaxTasks

\* frame_time = 1.0 / fps, in the unit of the clock.
FrameTime == CHOOSE dt \in FrameTimes : TRUE

\* A thread that runs: created and neither returned nor ended by an exception.
Alive(t) == task_pc[t] \notin {"unborn", "exited", "crashed"}

\* What a call of the display callback can do: the display is an external
\* collaborator, and its show can fail.
CallbackOutcomes == {"returned", "raised"}

\* A step of a tick, as the thread's log keeps it.
Step(step, status) ==
    [step |-> step, status |-> status, dt |-> 0, gap |-> 0, first |-> FALSE,
     callback |-> FALSE]

\* UIManager.set_display_callback with a callable.
set_display_callback ==
    /\ display_callback' = TRUE
    /\ trace' = <<>>
    /\ last' = Call("set_display_callback", None, None)
    /\ UNCHANGED <<screenVars, animVars, treeVars, flagVars, updating, event_handlers, managerVars,
                   animation_running, animation_thread, task_pc, tick_log,
                   since_tick, ticked, stop_pending, stop_state>>

\* UIManager.start_animation_loop: the flag is set and a new thread started,
\* whatever threads there are already.
start_animation_loop(t) ==
    /\ task_pc[t] = "unborn"
    /\ \A u \in Tasks : u < t => task_pc[u] # "unborn"
    /\ animation_running' = TRUE
    /\ animation_thread' = t
    /\ task_pc' = [task_pc EXCEPT ![t] = "check"]
    /\ trace' = <<>>
    /\ last' = Call("start_animation_loop", None, t)
    /\ UNCHANGED <<screenVars, animVars, treeVars, flagVars, updating, event_handlers, managerVars,
                   display_callback, tick_log, since_tick, ticked, stop_pending,
                   stop_state>>

\* stop_animation_loop up to its join: the flag is cleared.
StopBegin ==
    /\ stop_state = "idle"
    /\ animation_running' = FALSE
    /\ stop_pending' = [t \in Tasks |-> stop_pending[t] \/ Alive(t)]
    /\ stop_state' = IF animation_thread # None THEN "joining" ELSE "idle"
    /\ trace' = <<>>
    /\ last' = Call("stop_animation_loop", None, None)
    /\ UNCHANGED <<screenVars, animVars, treeVars, flagVars, updating, event_handlers, managerVars,
                   display_callback, animation_thread, task_pc, tick_log, since_tick,
                   ticked>>

\* self.animation_thread.join(timeout=1.0) returns: the thread has ended, or
\* the second is over.
StopReturn ==
    /\ stop_state = "joining"
    /\ stop_state' = "idle"
    /\ trace' = <<>>
    /\ last' = [Call("stop_returned", None, animation_thread) EXCEPT
                   !.status = IF Alive(animation_thread) THEN "timeout" ELSE "joined"]
    /\ UNCHANGED <<screenVars, animVars, treeVars, flagVars, updating, event_handlers, managerVars,
                   animation_running, display_callback, animation_thread, task_pc,
                   tick_log, since_tick, ticked, stop_pending>>

\* Time passes for every running thread; the count stops at MaxLate, which
\* stands for that much or more.
Elapse ==
    /\ \E t \in Tasks : Alive(t) /\ since_tick[t] < MaxLate
    /\ since_tick' = [t \in Tasks |-> IF Alive(t) /\ since_tick[t] < MaxLate
                                      THEN since_tick[t] + 1 ELSE since_tick[t]]
    /\ trace' = <<>>
    /\ last' = Call("elapse", None, None)
    /\ UNCHANGED <<screenVars, animVars, treeVars, flagVars, updating, event_handlers, managerVars,
                   animation_running, display_callback, animation_thread, task_pc,
                   tick_log, ticked, stop_pending, stop_state>>

\* `while self.animation_running:` and `start_time = time.time()`.
LoopCheck(t) ==
    /\ task_pc[t] = "check"
    /\ IF animation_running
       THEN /\ task_pc' = [task_pc EXCEPT ![t] = "update"]
            /\ tick_log' = [tick_log EXCEPT ![t] =
                   <<[Step("start", "returned") EXCEPT
                         !.gap = since_tick[t], !.first = ~ticked[t]]>>]
            /\ since_tick' = [since_tick EXCEPT ![t] = 0]
            /\ ticked' = [ticked EXCEPT ![t] = TRUE]
       ELSE /\ task_pc' = [task_pc EXCEPT ![t] = "exited"]
            /\ UNCHANGED <<tick_log, since_tick, ticked>>
    /\ stop_pending' = [stop_pending EXCEPT ![t] = FALSE]
    /\ trace' = <<>>
    /\ last' = [Call("loop_check", None, t) EXCEPT
                   !.status = IF animation_running THEN "tick" ELSE "exit",
                   !.result = IF stop_pending[t] THEN 1 ELSE 0]
    /\ UNCHANGED <<screenVars, animVars, treeVars, flagVars, updating, event_handlers, managerVars,
                   animation_running, display_callback, animation_thread, stop_state>>

\* The dt the loop hands to update: frame_time, in every tick.
LoopDt(t) == FrameTime

\* self.update(frame_time): UIManager.update calls the current screen's
\* update when there is one.  An exception ends the thread.
LoopUpdate(t, ws) ==
    /\ task_pc[t] = "update"
    /\ (current_screen = None \/ initialized[current_screen]) => ws = <<>>
    /\ \E r \in {IF current_screen # None
                 THEN ScreenUpdateResult(ScreenState, current_screen, LoopDt(t), ws)
                 ELSE ScreenState} :
          /\ built' = r.built
          /\ initialized' = r.initialized
          /\ children' = r.children
          /\ parent' = r.parent
          /\ props' = r.props
          /\ animations' = r.animations
          /\ animation_progress' = r.animation_progress
          /\ trace' = r.trace
          /\ tick_log' = [tick_log EXCEPT ![t] =
                 Append(@, [Step("update", r.status) EXCEPT
                               !.dt = LoopDt(t), !.gap = tick_log[t][1].gap,
                               !.first = tick_log[t][1].first])]
          /\ task_pc' = [task_pc EXCEPT ![t] =
                 IF r.status = "returned" THEN "render" ELSE "crashed"]
          /\ last' = [Call("loop_update", current_screen, t) EXCEPT !.status = r.status]
    /\ updated' = IF current_screen # None
                  THEN [updated EXCEPT ![current_screen] = TRUE] ELSE updated
    /\ UNCHANGED <<flagVars, updating, event_handlers, managerVars, now, started, screen_name,
                   fields, animation_running, display_callback, animation_thread,
                   since_tick, ticked, stop_pending, stop_state>>

\* The loop rendering a frame in every tick, callback or not.
RenderUnconditional(callback) == "render"

\* `if self.display_callback:`: what the tick does next.
RenderStep(callback) == IF callback THEN "render" ELSE "no_callback"

\* `if self.display_callback: image = self.render()`: the frame is rendered
\* only for a callback; rendering reads the tree and changes nothing.
LoopRender(t) ==
    /\ task_pc[t] = "render"
    /\ tick_log' = [tick_log EXCEPT ![t] =
           Append(@, [Step(RenderStep(display_callback), "returned") EXCEPT
                         !.callback = display_callback])]
    /\ task_pc' = [task_pc EXCEPT ![t] =
           IF RenderStep(display_callback) = "render" THEN "present" ELSE "sleep"]
    /\ trace' = <<>>
    /\ last' = Call("loop_render", current_screen, t)
    /\ UNCHANGED <<screenVars, animVars, treeVars, flagVars, updating, event_handlers, managerVars,
                   animation_running, display_callback, animation_thread, since_tick,
                   ticked, stop_pending, stop_state>>

\* Where the thread is after self.display_callback(image): the call is not
\* guarded, so an exception of the callback ends the thread.
Present(outcome) == IF outcome = "returned" THEN "sleep" ELSE "crashed"

LoopPresent(t, outcome) ==
    /\ task_pc[t] = "present"
    /\ tick_log' = [tick_log EXCEPT ![t] = Append(@, Step("display", outcome))]
    /\ task_pc' = [task_pc EXCEPT ![t] = Present(outcome)]
    /\ trace' = <<>>
    /\ last' = [Call("loop_present", current_screen, t) EXCEPT !.status = outcome]
    /\ UNCHANGED <<screenVars, animVars, treeVars, flagVars, updating, event_handlers, managerVars,
                   animation_running, display_callback, animation_thread, since_tick,
                   ticked, stop_pending, stop_state>>

\* time.sleep(max(0, frame_time - elapsed)) returns: at least frame_time has
\* passed since the tick began.
LoopSleep(t) ==
    /\ task_pc[t] = "sleep"
    /\ since_tick[t] >= FrameTime
    /\ tick_log' = [tick_log EXCEPT ![t] = Append(@, Step("sleep", "returned"))]
    /\ task_pc' = [task_pc EXCEPT ![t] = "check"]
    /\ trace' = <<>>
    /\ last' = Call("loop_sleep", None, t)
    /\ UNCHANGED <<screenVars, animVars, treeVars, flagVars, updating, event_handlers, managerVars,
                   animation_running, display_callback, animation_thread, since_tick,
                   ticked, stop_pending, stop_state>>

\* A step of the frame-loop thread t.
LoopStep(t) ==
    \/ LoopCheck(t)
    \/ \E ws \in WidgetLists : LoopUpdate(t, ws)
    \/ LoopRender(t)
    \/ \E outcome \in CallbackOutcomes : LoopPresent(t, outcome)
    \/ LoopSleep(t)

\* ---------------------------------------------------------- grid_layout
\* Cells ignoring the spacing between them.
CellSizeNoSpacing(extent, count, spacing) == extent \div count

\* (container.width - spacing * (cols - 1)) // cols, and the same for the
\* height: Python's // rounds down, as \div does.
CellSize(extent, count, spacing) == (extent - spacing * (count - 1)) \div count

\* grid_layout(container, rows, cols, spacing): row and col count from 1
\* here and from 0 in range().
grid_layout(container, rows, cols, spacing) ==
    LET cell_width == CellSize(container.width, cols, spacing)
        cell_height == CellSize(container.height, rows, spacing)
    IN  [row \in 1 .. rows |->
            [col \in 1 .. cols |->
                UIRect(container.x + (col - 1) * (cell_width + spacing),
                       container.y + (row - 1) * (cell_height + spacing),
                       cell_width, cell_height)]]

\* The arguments grid_layout is called with: the test's 400 by 300
\* container and smaller ones, at the origin and away from it; a spacing
\* of 0, the default 10, and values the signature allows as well.
GridOrigins == {0, 5}

GridExtents == {10, 300, 400}

GridSpacings == {0 - 20, 0, 3, 10}

GridInputs ==
    {<<UIRect(x, y, w, h), rows, cols, spacing>> :
        x \in GridOrigins, y \in GridOrigins, w \in GridExtents, h \in GridExtents,
        rows \in 1 .. MaxGrid, cols \in 1 .. MaxGrid, spacing \in GridSpacings}

\* The call returns its grid.
GridLayoutCall ==
    /\ last.op = "grid_layout_args"
    /\ last' = [last EXCEPT
                   !.op = "grid_layout",
                   !.result = grid_layout(last.arg[1], last.arg[2], last.arg[3],
                                          last.arg[4])]
    /\ UNCHANGED <<screenVars, loopVars, animVars, treeVars, flagVars, updating, event_handlers,
                   managerVars, trace>>

\* --------------------------------------------------------------- render
\* What a render call draws: the node, and how deep below the node the
\* call was made on.
Drawn(n, depth) == [node |-> n, depth |-> depth]

\* The children in the order hit_test tries them: topmost first.
RenderOrderTopFirst(n) == Reverse(sorted(children[n]))

\* sorted(self.children, key=lambda c: c.z_index).
RenderOrder(n) == sorted(children[n])

\* UIComponent.render: nothing for an invisible node; otherwise
\* _render_self, then the visible children in sorted order.
RECURSIVE render(_, _)
RECURSIVE RenderChildren(_, _)
render(n, depth) ==
    IF ~visible[n] THEN <<>>
    ELSE <<Drawn(n, depth)>> \o RenderChildren(RenderOrder(n), depth + 1)

RenderChildren(cs, depth) ==
    IF cs = <<>> THEN <<>>
    ELSE (IF visible[Head(cs)] THEN render(Head(cs), depth) ELSE <<>>)
             \o RenderChildren(Tail(cs), depth)

\* A call of render from outside (UIScreen.render on the root, or a test).
RenderCall(n) ==
    /\ last' = [Call("render", n, None) EXCEPT !.result = render(n, 0)]
    /\ trace' = <<>>
    /\ UNCHANGED <<screenVars, loopVars, animVars, treeVars, flagVars, updating, event_handlers,
                   managerVars>>

\* ------------------------------------------------------- specifications
\* A manager with no screen registered and no focus.
InitManager ==
    /\ event_handlers = [n \in Nodes |-> [k \in EventKeys |-> <<>>]]
    /\ screens = [name \in SwitchNames |-> None]
    /\ current_screen = None
    /\ previous_screen = None
    /\ focused_component = None
    /\ is_active = [s \in Screens |-> FALSE]
    /\ trace = <<>>
    /\ last = NoCall

\* No animation started, the attributes as constructed, the clock at 0.
InitAnimations ==
    /\ props = [n \in Nodes |-> InitialProps]
    /\ animations = [n \in Nodes |-> <<>>]
    /\ animation_progress = [n \in Nodes |-> 0]
    /\ now = 0
    /\ started = 0

\* The nodes animations run on: the parent and its child.
Animated == {1, 2}

\* No frame loop started, no display callback set.
InitLoopState ==
    /\ animation_running = FALSE
    /\ display_callback = FALSE
    /\ animation_thread = None
    /\ task_pc = [t \in Tasks |-> "unborn"]
    /\ tick_log = [t \in Tasks |-> <<>>]
    /\ since_tick = [t \in Tasks |-> 0]
    /\ ticked = [t \in Tasks |-> FALSE]
    /\ stop_pending = [t \in Tasks |-> FALSE]
    /\ stop_state = "idle"
    /\ updating = IdleUpdate

\* Screens as constructed by the app: a menu and a temperature screen.
InitScreenState ==
    /\ screen_name = [s \in Screens |-> IF s % 2 = 1 THEN "menu" ELSE "temperature"]
    /\ initialized = [s \in Screens |-> FALSE]
    /\ built = [s \in Screens |-> FALSE]
    /\ updated = [s \in Screens |-> FALSE]
    /\ fields = [s \in Screens |-> InitialFields]

\* Nodes as their constructor leaves them, with the default flags.
InitNodes ==
    /\ parent = [n \in Nodes |-> None]
    /\ children = [n \in Nodes |-> <<>>]
    /\ visible = [n \in Nodes |-> TRUE]
    /\ enabled = [n \in Nodes |-> TRUE]
    /\ z_index = [n \in Nodes |-> 0]

InitTree == InitNodes /\ InitManager /\ InitAnimations /\ InitScreenState /\ InitLoopState

NextTree ==
    \/ \E p, c \in Nodes : add_child(p, c)
    \/ \E p, c \in Nodes : remove_child(p, c)
    \/ \E p \in Nodes : \E items \in ItemLists : update_menu(p, items)

SpecTree == InitTree /\ [][NextTree]_vars

\* Nodes constructed with any flags (the visible, enabled and z_index
\* keyword arguments).  hit_test reads the child lists and the flags only,
\* and add_child alone builds every child list.
InitHit ==
    /\ parent = [n \in Nodes |-> None]
    /\ children = [n \in Nodes |-> <<>>]
    /\ visible \in [Nodes -> BOOLEAN]
    /\ enabled \in [Nodes -> BOOLEAN]
    /\ z_index \in [Nodes -> 0 .. MaxZ]
    /\ InitManager
    /\ InitAnimations
    /\ InitScreenState
    /\ InitLoopState

NextHit ==
    \/ \E p, c \in Nodes : add_child(p, c)
    \/ \E n \in Nodes : \E pt \in Points : HitTestCall(n, pt)

SpecHit == InitHit /\ [][NextHit]_vars

\* Handlers registered on nodes and events emitted to them.
InitEmit == InitNodes /\ InitManager /\ InitAnimations /\ InitScreenState /\ InitLoopState

NextEmit ==
    \/ \E n \in Nodes, key \in EventKeys, h \in Handlers :
          Registrations < MaxRegistrations /\ on(n, key, h)
    \/ \E n \in Nodes, key \in EventKeys : EmitCall(n, key)

SpecEmit == InitEmit /\ [][NextEmit]_vars

\* The manager: screens registered and switched, input delivered, while the
\* trees under the screens' roots are built and taken apart.
InitInput ==
    /\ InitNodes
    /\ InitAnimations
    /\ InitScreenState
    /\ InitLoopState
    /\ screens = [name \in SwitchNames |-> None]
    /\ current_screen = None
    /\ previous_screen = None
    /\ focused_component = None
    /\ is_active = [s \in Screens |-> FALSE]
    /\ trace = <<>>
    /\ last = NoCall
    /\ \E hl \in InputHandlerLists :
          event_handlers = [n \in Nodes |-> [k \in EventKeys |-> hl]]

NextInput ==
    \/ \E s \in Screens : register_screen(s)
    \/ \E name \in SwitchNames, transition \in BOOLEAN : switch_screen(name, transition)
    \/ \E event \in InputEvents, pt \in InputPoints : handle_input(event, pt)
    \/ \E p \in Nodes, c \in Nodes \ Screens : add_child(p, c)
    \/ \E p \in Nodes, c \in Nodes \ Screens : remove_child(p, c)

SpecInput == InitInput /\ [][NextInput]_vars

\* Animations started and advanced on a parent and its child, the child
\* shown or hidden, while time passes.
InitAnim ==
    /\ parent = [n \in Nodes |-> IF n = 2 THEN 1 ELSE None]
    /\ children = [n \in Nodes |-> IF n = 1 THEN <<2>> ELSE <<>>]
    /\ visible \in {[n \in Nodes |-> TRUE], [n \in Nodes |-> n # 2]}
    /\ enabled = [n \in Nodes |-> TRUE]
    /\ z_index = [n \in Nodes |-> 0]
    /\ InitManager
    /\ InitAnimations
    /\ InitScreenState
    /\ InitLoopState

NextAnim ==
    \/ \E n \in Animated, prop \in Props, to \in ToValues, duration \in Durations,
          easing \in Easings : animate(n, prop, to, duration, easing)
    \/ \E n \in Animated, dt \in FrameTimes : UpdateCall(n, dt)
    \/ Tick

SpecAnim == InitAnim /\ [][NextAnim]_vars

\* The classes screen s is constructed from: one screen with data of a
\* print, the others without.
ScreenClasses(s) == IF s = 1 THEN {"progress", "settings"} ELSE {"temperature", "menu"}

\* A descriptor with a duration of 0, as animate(..., duration=0) leaves it.
ZeroDurationAnimation ==
    [prop |-> "value", from |-> Num(0), to |-> Num(100), duration |-> 0,
     start_time |-> 0, easing |-> "linear"]

\* Freshly constructed screens of any class, updated, initialized directly
\* and fed data; a root may carry an animation that makes its tick fail.
InitScreen ==
    /\ InitNodes
    /\ InitManager
    /\ InitLoopState
    /\ props = [n \in Nodes |-> InitialProps]
    /\ animations \in {[n \in Nodes |-> <<>>],
                       [n \in Nodes |-> IF n = 1 THEN <<ZeroDurationAnimation>> ELSE <<>>]}
    /\ animation_progress = [n \in Nodes |-> 0]
    /\ now = 0
    /\ started = 0
    /\ screen_name \in {f \in [Screens -> ScreenNames] : \A s \in Screens : f[s] \in ScreenClasses(s)}
    /\ initialized = [s \in Screens |-> FALSE]
    /\ built = [s \in Screens |-> FALSE]
    /\ updated = [s \in Screens |-> FALSE]
    /\ fields = [s \in Screens |-> InitialFields]

NextScreen ==
    \/ \E s \in Screens, dt \in FrameTimes, ws \in WidgetLists : ScreenUpdate(s, dt, ws)
    \/ \E s \in Screens, ws \in WidgetLists : Initialize(s, ws)
    \/ \E s \in Screens, progress \in ProgressInputs, filename \in FilenameInputs,
          state \in StateInputs, elapsed \in ElapsedInputs,
          remaining \in RemainingInputs :
          update_progress(s, progress, filename, state, elapsed, remaining)
    \/ \E s \in Screens, temps \in TemperatureInputs : update_temperatures(s, temps)

SpecScreen == InitScreen /\ [][NextScreen]_vars

\* The manager as the app leaves it before run(): a screen registered and
\* switched to, or none; its root may carry an animation that makes the
\* tick fail.
InitLoop ==
    /\ InitNodes
    /\ InitScreenState
    /\ InitLoopState
    /\ event_handlers = [n \in Nodes |-> [k \in EventKeys |-> <<>>]]
    /\ \E s \in ScreenOrNone :
          /\ current_screen = s
          /\ screens = [name \in SwitchNames |->
                           IF s # None /\ name = screen_name[1] THEN 1 ELSE None]
          /\ s \in {None, 1}
          /\ is_active = [q \in Screens |-> q = s]
    /\ previous_screen = None
    /\ focused_component = None
    /\ trace = <<>>
    /\ last = NoCall
    /\ props = [n \in Nodes |-> InitialProps]
    /\ animations \in {[n \in Nodes |-> <<>>],
                       [n \in Nodes |-> IF n = 1 THEN <<ZeroDurationAnimation>> ELSE <<>>]}
    /\ animation_progress = [n \in Nodes |-> 0]
    /\ now = 0
    /\ started = 0

NextLoop ==
    \/ set_display_callback
    \/ \E t \in Tasks : start_animation_loop(t)
    \/ StopBegin
    \/ StopReturn
    \/ Elapse
    \/ \E t \in Tasks : LoopStep(t)

SpecLoop == InitLoop /\ [][NextLoop]_vars

\* The frame loop under fair scheduling: every thread that can take a step
\* takes one, time passes, and a join returns.
SpecLoopFair ==
    /\ SpecLoop
    /\ \A t \in Tasks : WF_vars(LoopStep(t))
    /\ WF_vars(Elapse)
    /\ WF_vars(StopReturn)

\* A call of grid_layout about to be made, with arguments of GridInputs.
InitGrid ==
    /\ InitNodes
    /\ InitAnimations
    /\ InitScreenState
    /\ InitLoopState
    /\ event_handlers = [n \in Nodes |-> [k \in EventKeys |-> <<>>]]
    /\ screens = [name \in SwitchNames |-> None]
    /\ current_screen = None
    /\ previous_screen = None
    /\ focused_component = None
    /\ is_active = [s \in Screens |-> FALSE]
    /\ trace = <<>>
    /\ last \in {Call("grid_layout_args", None, args) : args \in GridInputs}

NextGrid == GridLayoutCall

SpecGrid == InitGrid /\ [][NextGrid]_vars

\* Trees of nodes with any flags, built by add_child and rendered.
NextRender ==
    \/ \E p, c \in Nodes : add_child(p, c)
    \/ \E n \in Nodes : RenderCall(n)

SpecRender == InitHit /\ [][NextRender]_vars

\* One manager and screens of any names, two of them possibly registered
\* under the same name, registered and switched to in any order.
SharedNames == {"menu", "temperature"}

InitSwitch ==
    /\ InitNodes
    /\ InitAnimations
    /\ InitLoopState
    /\ InitManager
    /\ screen_name \in [Screens -> SharedNames]
    /\ initialized = [s \in Screens |-> FALSE]
    /\ built = [s \in Screens |-> FALSE]
    /\ updated = [s \in Screens |-> FALSE]
    /\ fields = [s \in Screens |-> InitialFields]

NextSwitch ==
    \/ \E s \in Screens : register_screen(s)
    \/ \E name \in SwitchNames, transition \in BOOLEAN : switch_screen(name, transition)

SpecSwitch == InitSwitch /\ [][NextSwitch]_vars

\* The durations animate is given by callers that pass a positive one.
PositiveDurations == {d \in Durations : d > 0}

\* One node ticked by the frame-loop thread, step by step, while another
\* thread starts animations on it and time passes.
InitRace == InitNodes /\ InitManager /\ InitAnimations /\ InitScreenState /\ InitLoopState

NextRace ==
    \/ \E prop \in Props, to \in ToValues, duration \in PositiveDurations,
          easing \in Easings : animate(1, prop, to, duration, easing)
    \/ \E dt \in FrameTimes : UpdateAnimationsBegin(1, dt)
    \/ UpdateAnimationsNext
    \/ UpdateAnimationsRemove
    \/ Tick

SpecRace == InitRace /\ [][NextRace]_vars

\* ------------------------------------------------------------ C1 .. C4
\* C1: n appears in p.children if and only if n.parent is p, for every pair
\* of nodes, after any sequence of add_child, remove_child and menu rebuilds.
C1_ParentChildInvariant ==
    \A n, p \in Nodes : (n \in Range(children[p])) <=> (parent[n] = p)

\* C2: p.add_child(c) followed at once by p.remove_child(c) leaves c.parent
\* None and c not in p.children, whatever the state the two calls start in.
C2_AddThenRemoveRestores ==
    [][(/\ last.op = "add_child"
        /\ last'.op = "remove_child"
        /\ last'.node = last.node
        /\ last'.arg = last.arg)
       => (/\ parent'[last.arg] = None
           /\ last.arg \notin Range(children'[last.node]))]_vars

\* The node is one hit_test looks into at (px, py).
Hittable(n, px, py) == visible[n] /\ enabled[n] /\ contains(RectOf(n), px, py)

\* Among the positions S of a child list, the one whose node has the highest
\* z_index; of several with that z_index, the one added last.
TopIndex(p, S) ==
    CHOOSE i \in S : \A j \in S :
        \/ z_index[children[p][j]] < z_index[children[p][i]]
        \/ (z_index[children[p][j]] = z_index[children[p][i]] /\ j <= i)

ContainingIdx(p, px, py) ==
    {i \in 1 .. Len(children[p]) : contains(RectOf(children[p][i]), px, py)}

HittableIdx(p, px, py) ==
    {i \in 1 .. Len(children[p]) : Hittable(children[p][i], px, py)}

\* C3 as stated: hit_test on a parent that looks into its children resolves
\* through the sibling of highest z_index (last added on a tie) among those
\* whose rectangle contains the point.
C3_TopmostContainingSibling ==
    (/\ last.op = "hit_test"
     /\ Hittable(last.node, last.x, last.y)
     /\ ContainingIdx(last.node, last.x, last.y) # {})
    => LET p == last.node
           top == children[p][TopIndex(p, ContainingIdx(p, last.x, last.y))]
       IN  last.result # None /\ last.result = hit_test(top, last.x, last.y)

\* C3 amended: hit_test on a visible, enabled parent whose rectangle contains
\* the point resolves through the sibling of highest z_index (last added on a
\* tie) among the visible, enabled siblings whose rectangle contains the point.
C3_TopmostHittableSibling ==
    (/\ last.op = "hit_test"
     /\ Hittable(last.node, last.x, last.y)
     /\ HittableIdx(last.node, last.x, last.y) # {})
    => LET p == last.node
           top == children[p][TopIndex(p, HittableIdx(p, last.x, last.y))]
       IN  last.result # None /\ last.result = hit_test(top, last.x, last.y)

\* A hit test decided by the tie rule: two different siblings of the same,
\* highest z_index are both hittable at the point, and the later one wins.
C3_Witness ==
    /\ last.op = "hit_test"
    /\ Hittable(last.node, last.x, last.y)
    /\ \E i, j \in HittableIdx(last.node, last.x, last.y) :
          /\ i < j
          /\ children[last.node][i] # children[last.node][j]
          /\ z_index[children[last.node][i]] = z_index[children[last.node][j]]
          /\ j = TopIndex(last.node, HittableIdx(last.node, last.x, last.y))
          /\ last.result = hit_test(children[last.node][j], last.x, last.y)
          /\ last.result # hit_test(children[last.node][i], last.x, last.y)

\* The node heads a tree: it is no node's child.
IsRoot(n) == \A q \in Nodes : n \notin Range(children[q])

\* C4: root.hit_test(x, y) is None outside the root's rectangle; a node it
\* returns is visible and enabled, contains the point, and lies in the subtree
\* of no invisible or disabled node of the root's tree; the root itself is
\* returned when it is hittable and no child resolves.
C4_HitTestSafety ==
    (last.op = "hit_test" /\ IsRoot(last.node))
    => LET root == last.node
           r == last.result
       IN  /\ ~contains(RectOf(root), last.x, last.y) => r = None
           /\ r # None =>
                 /\ visible[r] /\ enabled[r]
                 /\ contains(RectOf(r), last.x, last.y)
                 /\ \A q \in {root} \cup Descendants(root) :
                       r \in Descendants(q) => visible[q] /\ enabled[q]
           /\ (/\ Hittable(root, last.x, last.y)
               /\ \A c \in Range(children[root]) : hit_test(c, last.x, last.y) = None)
              => r = root

\* ------------------------------------------------------------ C5 .. C7
\* The emit calls of a trace, in order, without the handler calls between.
Emits(tr) == SelectSeq(tr, LAMBDA e : e.what = "emit")

\* The handlers a trace shows called, in order.
HandlerCalls(tr) ==
    LET hs == SelectSeq(tr, LAMBDA e : e.what \in {"handler", "handler_error"})
    IN  [i \in 1 .. Len(hs) |-> hs[i].handler]

\* C5: in handle_input for a click or long-press with coordinates, a hit
\* that differs from the focused component makes the manager emit BLUR to the
\* old focus (if any) while it is still the focus, then FOCUS to the hit node
\* (if any) once it is the focus, both before the original event; a hit equal
\* to the focused component emits neither and leaves the focus as it is.
C5_FocusTransfer ==
    [][(/\ last'.op = "handle_input"
        /\ current_screen # None
        /\ last'.event \in {"CLICK", "LONG_PRESS"}
        /\ last'.arg = 2)
       => LET old == focused_component
              hit == hit_test(current_screen, last'.x, last'.y)
              ev  == last'.event
          IN  IF hit # old
              THEN /\ focused_component' = hit
                   /\ Emits(trace') =
                         (IF old # None
                          THEN <<Entry("emit", old, "BLUR", None, old)>> ELSE <<>>) \o
                         (IF hit # None
                          THEN <<Entry("emit", hit, "FOCUS", None, hit),
                                 Entry("emit", hit, ev, None, hit)>>
                          ELSE <<>>)
              ELSE /\ focused_component' = old
                   /\ \A i \in 1 .. Len(trace') :
                         trace'[i].event \notin {"BLUR", "FOCUS"}]_vars

\* A click that moved the focus from one node to another: BLUR went to the
\* old one, FOCUS and the click to the new one, past a handler that raised.
C5_Witness ==
    /\ last.op = "handle_input"
    /\ last.result # None
    /\ focused_component = last.result
    /\ Len(Emits(trace)) = 3
    /\ Emits(trace)[1].event = "BLUR"
    /\ Emits(trace)[1].target # last.result
    /\ Emits(trace)[2].event = "FOCUS"
    /\ \E i \in 1 .. Len(trace) : trace[i].what = "handler_error"

\* C6: every handle_input call made while a screen is active emits the
\* original event exactly once to the hit node when a node was hit, and
\* calls the active screen's handle_event exactly once with that event,
\* whether or not a node was hit and whether or not coordinates were given.
C6_EventDelivered ==
    (last.op = "handle_input" /\ last.node # None)
    => /\ Cardinality({i \in 1 .. Len(trace) : trace[i].what = "handle_event"}) = 1
       /\ \E i \in 1 .. Len(trace) :
             /\ trace[i].what = "handle_event"
             /\ trace[i].target = last.node
             /\ trace[i].event = last.event
       /\ last.result # None =>
             Cardinality({i \in 1 .. Len(trace) :
                             /\ trace[i].what = "emit"
                             /\ trace[i].target = last.result
                             /\ trace[i].event = last.event}) = 1

\* Input without coordinates, and a click that hit nothing, each reached the
\* screen's handle_event all the same.
C6_Witness ==
    /\ last.op = "handle_input"
    /\ last.node # None
    /\ last.result = None
    /\ last.event = "CLICK"
    /\ last.arg = 2
    /\ trace = <<Entry("handle_event", last.node, "CLICK", None, None)>>

\* C7: node.emit(kind) calls every handler registered on the node for the
\* kind exactly once, in registration order, handlers after a raising one
\* included, and returns normally; with no handler registered it returns
\* normally and changes nothing.
C7_EmitRunsAllHandlers ==
    [][last'.op = "emit"
       => /\ last'.status = "returned"
          /\ HandlerCalls(trace') = event_handlers[last'.node][last'.event]
          /\ UNCHANGED <<screenVars, loopVars, animVars, treeVars, flagVars, updating, event_handlers, managerVars>>]_vars

\* An emit whose first handler raised and whose second handler ran after it.
C7_Witness ==
    /\ last.op = "emit"
    /\ Len(trace) = 3
    /\ trace[2].what = "handler_error"
    /\ trace[3].what = "handler"
    /\ last.status = "returned"

\* ------------------------------------------------------------ C8 .. C9
\* The nodes whose _update_animations ran in the calls of a trace.
Ticked(tr) == {tr[i].target : i \in {j \in 1 .. Len(tr) : tr[j].what = "_update_animations"}}

\* The node has no descriptor for the attribute.
NoDescriptor(ds, prop) == \A i \in 1 .. Len(ds) : ds[i].prop # prop

\* C8: on an update tick of a node, every descriptor whose elapsed time has
\* reached its duration has its attribute set to exactly `to` and is removed
\* from the node's animations, whatever its easing; every other descriptor
\* is still there after the tick.
C8_CompletesAtDuration ==
    [][last'.op = "update"
       => \A n \in Ticked(trace') : \A i \in 1 .. Len(animations[n]) :
             LET anim == animations[n][i]
             IN  IF now - anim.start_time >= anim.duration
                 THEN /\ props'[n][anim.prop] = anim.to
                      /\ NoDescriptor(animations'[n], anim.prop)
                 ELSE anim \in Range(animations'[n])]_vars

\* value = from + (to - from) * elapsed / duration, over fractions, with
\* the denominators multiplied out.
IsLinearValue(value, anim, elapsed) ==
    /\ value.kind = "num"
    /\ LET v == value.v[1]
           f == anim.from.v[1]
           t == anim.to.v[1]
       IN  v[1] * f[2] * t[2] * anim.duration =
           v[2] * (f[1] * t[2] * anim.duration + (t[1] * f[2] - f[1] * t[2]) * elapsed)

\* C9: on every update tick of a node, for each of its descriptors with
\* linear easing, scalar from and to and a duration other than 0: if
\* elapsed / duration >= 1 the attribute becomes exactly `to` and the
\* descriptor is removed, and otherwise the descriptor stays and the
\* attribute is from + (to - from) * elapsed / duration; for from 0, to 100
\* and a duration of one second that is 0 at elapsed 0.0, 50 at elapsed 0.5,
\* and 100 with the record gone from 1.0 on.
C9_LinearInterpolation ==
    [][last'.op = "update"
       => \A n \in Ticked(trace') : \A i \in 1 .. Len(animations[n]) :
             LET anim == animations[n][i]
                 elapsed == now - anim.start_time
                 value == props'[n][anim.prop]
                 gone == NoDescriptor(animations'[n], anim.prop)
             IN  (/\ anim.duration # 0
                  /\ anim.easing = "linear"
                  /\ anim.from.kind = "num"
                  /\ anim.to.kind = "num")
                 => /\ IF anim.duration > 0 /\ elapsed >= anim.duration
                       THEN value = anim.to /\ gone
                       ELSE anim \in Range(animations'[n])
                            /\ IsLinearValue(value, anim, elapsed)
                    /\ (anim.from = Num(0) /\ anim.to = Num(100) /\ anim.duration = Second)
                       => /\ elapsed = 0 => value = Num(0) /\ ~gone
                          /\ 2 * elapsed = Second => value = Num(50) /\ ~gone
                          /\ elapsed >= Second => value = Num(100) /\ gone]_vars

\* ------------------------------------------------------------------ C10
\* C10: switch_screen with a name that is not registered does not raise and
\* leaves the manager as it was: current_screen, previous_screen, the focus,
\* the registry and every is_active flag; it calls no on_exit or on_enter.
C10_UnknownScreenNoChange ==
    [][(last'.op = "switch_screen" /\ screens[last'.event] = None)
       => /\ last'.status = "returned"
          /\ UNCHANGED managerVars
          /\ \A i \in 1 .. Len(trace') : trace'[i].what \notin {"on_exit", "on_enter"}]_vars

\* A switch to an unknown name made while a screen was active and a node had
\* the focus.
C10_Witness ==
    /\ last.op = "switch_screen"
    /\ last.event = "nonexistent"
    /\ current_screen # None
    /\ is_active[current_screen]
    /\ focused_component # None
    /\ trace = <<Entry("print_not_found", None, "nonexistent", None, focused_component)>>

\* ------------------------------------------------------------------ C11
\* The on_exit and on_enter calls of a trace, in order, as <<call, screen>>.
ScreenCalls(tr) ==
    LET cs == SelectSeq(tr, LAMBDA e : e.what \in {"on_exit", "on_enter"})
    IN  [i \in 1 .. Len(cs) |-> <<cs[i].what, cs[i].target>>]

\* C11: switch_screen with a registered name makes the target the current
\* screen and calls its on_enter; with a screen active it first calls that
\* screen's on_exit and makes it previous_screen; with none active it calls
\* no on_exit and leaves previous_screen as it is.
C11_SwitchRegistered ==
    [][(last'.op = "switch_screen" /\ screens[last'.event] # None)
       => LET target == screens[last'.event]
          IN  /\ last'.status = "returned"
              /\ current_screen' = target
              /\ is_active'[target]
              /\ IF current_screen # None
                 THEN /\ previous_screen' = current_screen
                      /\ ScreenCalls(trace') =
                            <<<<"on_exit", current_screen>>, <<"on_enter", target>>>>
                      /\ current_screen # target => ~is_active'[current_screen]
                 ELSE /\ previous_screen' = previous_screen
                      /\ ScreenCalls(trace') = <<<<"on_enter", target>>>>]_vars

\* A switch from one active screen to another: the old one exited and became
\* previous_screen, the new one was entered.
C11_Witness ==
    /\ last.op = "switch_screen"
    /\ current_screen # None
    /\ previous_screen # None
    /\ previous_screen # current_screen
    /\ ~is_active[previous_screen]
    /\ is_active[current_screen]
    /\ ScreenCalls(trace) =
          <<<<"on_exit", previous_screen>>, <<"on_enter", current_screen>>>>

\* ------------------------------------------------------------------ C20
\* The number of places node n takes in child lists.
Occurrences(n) ==
    Cardinality({pi \in Nodes \X (1 .. MaxChildren) :
                    pi[2] <= Len(children[pi[1]]) /\ children[pi[1]][pi[2]] = n})

\* C20: after any sequence of add_child and remove_child calls every node is
\* in the children of at most one node, and at most once.
C20_ExclusiveOwnership == \A n \in Nodes : Occurrences(n) <= 1

\* ------------------------------------------------------------------ C12
\* The names of the steps a call has logged, in order.
Whats(tr) == [i \in 1 .. Len(tr) |-> tr[i].what]

\* C12: over any sequence of update calls on one screen the initialize hook
\* runs exactly once, in the first call and before that call's root.update,
\* and initialized is true after every update call.
C12_InitializeOnce ==
    [][\A s \in Screens :
          (last'.op = "screen_update" /\ last'.node = s) =>
              /\ initialized'[s]
              /\ IF updated[s]
                 THEN \A i \in 1 .. Len(trace') : trace'[i].what # "initialize"
                 ELSE /\ Len(trace') >= 2
                      /\ SubSeq(Whats(trace'), 1, 2) = <<"initialize", "root.update">>
                      /\ \A i \in 2 .. Len(trace') : trace'[i].what # "initialize"]_vars

\* A second update of a screen whose first update built its widgets: only
\* root.update runs.
C12_Witness ==
    \E s \in Screens :
        /\ last.op = "screen_update"
        /\ last.node = s
        /\ initialized[s]
        /\ children[s] # <<>>
        /\ trace # <<>>
        /\ trace[1].what = "root.update"

\* ------------------------------------------------------------ C17, C18
\* A screen as its constructor leaves it: no hook has run, no update.
FreshScreen(s) == ~built[s] /\ ~initialized[s] /\ ~updated[s]

\* C17: after SettingsScreen.initialize() is called directly on a freshly
\* constructed screen, initialized is True and the screen has the
\* attributes the hook creates.
C17_DirectInitialize ==
    [][\A s \in Screens :
          (/\ last'.op = "initialize"
           /\ last'.node = s
           /\ screen_name[s] = "settings"
           /\ FreshScreen(s)) => (initialized'[s] /\ built'[s])]_vars

\* The stored attribute is the given argument, when one is given.
Stored(s, field, arg) == arg # Unset => fields'[s][field] = arg

\* C18: the data-update methods of a freshly constructed screen complete
\* without error and leave the stored attributes equal to the given values.
C18_FreshDataUpdate ==
    [][\A s \in Screens :
          /\ (last'.op = "update_progress" /\ last'.node = s /\ FreshScreen(s)) =>
                 /\ last'.status = "returned"
                 /\ Stored(s, "progress", last'.arg[1])
                 /\ Stored(s, "filename", last'.arg[2])
                 /\ Stored(s, "state", last'.arg[3])
                 /\ Stored(s, "print_time", last'.arg[4])
                 /\ Stored(s, "remaining_time", last'.arg[5])
          /\ (last'.op = "update_temperatures" /\ last'.node = s /\ FreshScreen(s)) =>
                 /\ last'.status = "returned"
                 /\ fields'[s].bed_temp = last'.arg[1]
                 /\ fields'[s].bed_target = last'.arg[2]
                 /\ fields'[s].nozzle_temp = last'.arg[3]
                 /\ fields'[s].nozzle_target = last'.arg[4]]_vars

\* ------------------------------------------------------------ C13 .. C16
\* The names of the steps of the tick thread t is in, or has just ended.
TickSteps(t) == [i \in 1 .. Len(tick_log[t]) |-> tick_log[t][i].step]

IsPrefix(a, b) == Len(a) <= Len(b) /\ a = SubSeq(b, 1, Len(a))

\* C13: in every tick the update completes before the frame is rendered,
\* the frame goes to the display callback after rendering and before the
\* sleep, and without a callback the tick updates and renders nothing.
C13_TickOrder ==
    \A t \in Tasks :
        /\ \/ IsPrefix(TickSteps(t), <<"start", "update", "render", "display", "sleep">>)
           \/ IsPrefix(TickSteps(t), <<"start", "update", "no_callback", "sleep">>)
        /\ \A i \in 1 .. Len(tick_log[t]) :
              /\ tick_log[t][i].step \in {"render", "no_callback"} =>
                     /\ i > 1
                     /\ tick_log[t][i - 1].step = "update"
                     /\ tick_log[t][i - 1].status = "returned"
              /\ tick_log[t][i].step = "render" => tick_log[t][i].callback
              /\ tick_log[t][i].step = "no_callback" => ~tick_log[t][i].callback

\* One thread has finished a tick that presented a frame, another a tick
\* without a callback.
C13_Witness ==
    /\ \E t \in Tasks :
          TickSteps(t) = <<"start", "update", "render", "display", "sleep">>
    /\ \E t \in Tasks :
          TickSteps(t) = <<"start", "update", "no_callback", "sleep">>

\* C14: in every tick the dt passed to update is the wall-clock time since
\* the previous tick began, so a late tick passes more than the period.
C14_DtIsElapsed ==
    \A t \in Tasks : \A i \in 1 .. Len(tick_log[t]) :
        (tick_log[t][i].step = "update" /\ ~tick_log[t][i].first) =>
            tick_log[t][i].dt = tick_log[t][i].gap

\* C15: after stop_animation_loop cleared the flag, the thread's next check
\* of the flag ends the loop without another tick, and the thread
\* eventually exits.
C15_StopEndsLoop ==
    /\ [][\A t \in Tasks :
             (last'.op = "loop_check" /\ last'.arg = t /\ stop_pending[t]) =>
                 task_pc'[t] = "exited"]_vars
    /\ \A t \in Tasks : stop_pending[t] ~> ~Alive(t)

\* C16: when the display callback raises, the loop drops that frame and
\* keeps running.
C16_CallbackFailureSkipsFrame ==
    [][\A t \in Tasks :
          (last'.op = "loop_present" /\ last'.arg = t /\ last'.status = "raised") =>
              task_pc'[t] = "sleep"]_vars

\* ------------------------------------------------------------------ C19
\* The arguments and the result of the grid_layout call just made.
GridContainer == last.arg[1]

GridRows == last.arg[2]

GridCols == last.arg[3]

GridSpacing == last.arg[4]

Grid == last.result

\* Both corners of the cell are points of the container.
Inside(cell, container) ==
    /\ contains(container, cell.x, cell.y)
    /\ contains(container, cell.x + cell.width, cell.y + cell.height)

\* rows lists of cols rectangles of the stated width and height.
GridCells ==
    /\ Len(Grid) = GridRows
    /\ \A row \in 1 .. GridRows :
          /\ Len(Grid[row]) = GridCols
          /\ \A col \in 1 .. GridCols :
                /\ Grid[row][col].width =
                       (GridContainer.width - GridSpacing * (GridCols - 1)) \div GridCols
                /\ Grid[row][col].height =
                       (GridContainer.height - GridSpacing * (GridRows - 1)) \div GridRows

\* Neighbours are a cell and a spacing apart.
GridPitch ==
    /\ \A row \in 1 .. GridRows : \A col \in 1 .. GridCols - 1 :
          Grid[row][col + 1].x = Grid[row][col].x + Grid[row][col].width + GridSpacing
    /\ \A row \in 1 .. GridRows - 1 : \A col \in 1 .. GridCols :
          Grid[row + 1][col].y = Grid[row][col].y + Grid[row][col].height + GridSpacing

GridInside ==
    \A row \in 1 .. GridRows : \A col \in 1 .. GridCols :
        Inside(Grid[row][col], GridContainer)

\* The spacing is not negative and the spacings of a row and of a column
\* fit into the container.
SpacingFits ==
    /\ GridSpacing >= 0
    /\ GridSpacing * (GridCols - 1) <= GridContainer.width
    /\ GridSpacing * (GridRows - 1) <= GridContainer.height

\* C19: grid_layout with rows, cols >= 1 returns rows lists of cols
\* rectangles of width (width - spacing*(cols-1)) // cols and height
\* (height - spacing*(rows-1)) // rows, neighbours a cell and a spacing
\* apart, and every cell lies inside the container.
C19_GridLayout ==
    last.op = "grid_layout" => (GridCells /\ GridPitch /\ GridInside)

\* C19 amended: the sizes and the pitch as stated; every cell lies inside
\* the container when the spacing is not negative and the spacings of a row
\* and of a column fit into the container.
C19_GridLayoutSpacingFits ==
    last.op = "grid_layout" =>
        (GridCells /\ GridPitch /\ (SpacingFits => GridInside))

\* The test's call: 2 rows of 3 cells in 400 by 300 with a spacing of 10,
\* where the width does not divide evenly.
C19_Witness ==
    /\ last.op = "grid_layout"
    /\ SpacingFits
    /\ GridRows = 2
    /\ GridCols = 3
    /\ GridSpacing = 10
    /\ GridContainer.width = 400
    /\ Grid[1][1].width = 126
    /\ Grid[1][1].height = 145
    /\ Grid[2][3].x = GridContainer.x + 272

\* ------------------------------------------------------------------ C21
\* The nodes of the tree under the root of screen s.
TreeOf(s) == {s} \cup Descendants(s)

\* C21: after remove_child detaches the focused node, or one of its
\* ancestors, from the active screen's tree, the manager's focused
\* component is none.
C21_FocusClearedOnRemoval ==
    [][(/\ last'.op = "remove_child"
        /\ last'.arg \in Range(children[last'.node])
        /\ current_screen # None
        /\ last'.node \in TreeOf(current_screen)
        /\ focused_component \in {last'.arg} \cup Descendants(last'.arg))
           => focused_component' = None]_vars

\* ------------------------------------------------------------------ C22
\* The events PrintPalApp.on_click and on_long_press hand to handle_input.
AppPointerEvents == {"'click'"}

\* C22: a click the application's callbacks deliver with coordinates is
\* hit-tested against the active screen's root and emitted to the hit node.
C22_AppClickDelivered ==
    [][(/\ last'.op = "handle_input"
        /\ last'.event \in AppPointerEvents
        /\ last'.arg = 2
        /\ current_screen # None)
           => /\ last'.result = hit_test(current_screen, last'.x, last'.y)
              /\ last'.result # None =>
                    \E i \in 1 .. Len(trace') :
                        /\ trace'[i].what = "emit"
                        /\ trace'[i].target = last'.result
                        /\ trace'[i].event = last'.event]_vars

\* ------------------------------------------------------------------ C23
\* The nodes whose _update_animations a call ran, in the order it ran them.
TickOrder(tr) ==
    LET ticks == SelectSeq(tr, LAMBDA e : e.what = "_update_animations")
    IN  [i \in 1 .. Len(ticks) |-> ticks[i].target]

\* The position of node n in the sequence s, 0 when it is not in it.
IndexOf(s, n) ==
    IF n \in Range(s) THEN CHOOSE i \in 1 .. Len(s) : s[i] = n /\ \A j \in 1 .. i - 1 : s[j] # n
    ELSE 0

\* C23: update(dt) advances the node's own animations, then those of its
\* visible children in child order; a hidden child and its whole subtree
\* keep their attributes and their descriptors, elapsed or not.
C23_UpdateSkipsHidden ==
    [][\A n \in Nodes : (last'.op = "update" /\ last'.node = n) =>
          LET order == TickOrder(trace')
          IN  /\ animations[n] # <<>> => (order # <<>> /\ order[1] = n)
              /\ \A i \in 1 .. Len(children[n]) :
                    LET c == children[n][i]
                    IN  IF visible[c]
                        THEN /\ animations[c] # <<>> => c \in Range(order)
                             /\ \A j \in 1 .. i - 1 :
                                   (visible[children[n][j]] /\ animations[children[n][j]] # <<>>
                                        /\ animations[c] # <<>>)
                                       => IndexOf(order, children[n][j]) < IndexOf(order, c)
                        ELSE \A m \in {c} \cup Descendants(c) :
                                 /\ props'[m] = props[m]
                                 /\ animations'[m] = animations[m]]_vars

\* ------------------------------------------------------------------ C25
\* C25: on every update tick, for every descriptor animate can create, the
\* progress is clamp(elapsed / duration, 0, 1), and the tick does not fail:
\* at progress 1 the attribute is set to `to` and the descriptor removed,
\* below it the attribute is interpolated at the eased progress.
C25_ProgressClamped ==
    [][last'.op = "update" =>
          /\ last'.status = "returned"
          /\ \A n \in Ticked(trace') : \A i \in 1 .. Len(animations[n]) :
                LET anim == animations[n][i]
                    progress == Clamp01(Rat(now - anim.start_time, anim.duration))
                IN  anim.duration # 0 =>
                        IF RGeq(progress, One)
                        THEN /\ props'[n][anim.prop] = anim.to
                             /\ NoDescriptor(animations'[n], anim.prop)
                        ELSE /\ props'[n][anim.prop] =
                                    Interpolate(props[n][anim.prop], anim,
                                                Ease(anim.easing, progress))
                             /\ anim \in Range(animations'[n])]_vars

\* ------------------------------------------------------------------ C24
\* The children the call rendered itself, in the order it rendered them.
DirectDraws(out) ==
    LET direct == SelectSeq(out, LAMBDA d : d.depth = 1)
    IN  [i \in 1 .. Len(direct) |-> direct[i].node]

\* The positions of the visible children in the child list of n.
VisiblePositions(n) == {k \in 1 .. Len(children[n]) : visible[children[n][k]]}

\* The place of the child at position k among the visible children of n in
\* ascending z_index, earlier added first among equals.
DrawRank(n, k) ==
    1 + Cardinality({j \in VisiblePositions(n) :
                        \/ z_index[children[n][j]] < z_index[children[n][k]]
                        \/ /\ z_index[children[n][j]] = z_index[children[n][k]]
                           /\ j < k})

InTick == {t \in Tasks : task_pc[t] \in {"update", "render", "present"}}

\* C27: for any interleaving of start_animation_loop and
\* stop_animation_loop calls, at most one frame-loop task is executing
\* ticks at any time.
C27_SingleLoopTask == Cardinality(InTick) <= 1

\* stop_animation_loop has returned and start_animation_loop has not been
\* called since.
Stopped == ~animation_running /\ stop_state = "idle"

\* C28: once stop_animation_loop has returned, the frame loop never calls
\* update, render or the display callback again.
C28_QuietAfterStop ==
    [][Stopped => last'.op \notin {"loop_update", "loop_render", "loop_present"}]_vars

\* ------------------------------------------------------------------ C30
\* C30: focus does not carry over a screen switch: after a successful
\* switch_screen to a different screen, focused_component is none or a node
\* of the new current screen's tree (so no later handle_input can send BLUR
\* or FOCUS to a node of the screen that was exited).
C30_FocusNotCarriedOver ==
    [][(/\ last'.op = "switch_screen"
        /\ last'.status = "returned"
        /\ current_screen' # None
        /\ current_screen' # current_screen)
       => focused_component' \in {None} \cup TreeOf(current_screen')]_vars

\* ------------------------------------------------------------------ C29
\* The screens whose is_active flag is set.
ActiveScreens == {s \in Screens : is_active[s]}

\* C29: after any sequence of register_screen and switch_screen calls on
\* one manager, at most one screen has is_active set, and whenever
\* current_screen is set it is that screen.
C29_OneActiveScreen ==
    /\ Cardinality(ActiveScreens) <= 1
    /\ current_screen # None => ActiveScreens = {current_screen}

\* A switch to a name that was re-registered with another screen while the
\* screen first registered under it was current, and that went through.
C29_Witness ==
    /\ last.op = "switch_screen"
    /\ current_screen # None
    /\ previous_screen \notin {None, current_screen}
    /\ screen_name[previous_screen] = last.event
    /\ screen_name[current_screen] = last.event

\* ------------------------------------------------------------------ C26
\* The steps of a tick's _update_animations.
TickStepOps == {"_update_animations", "_update_animations_next", "_update_animations_del"}

\* C26: when animate is called on a node from another thread while the
\* frame-loop thread is inside update for that node, the tick does not fail
\* and no animation is lost: a descriptor leaves the node's animations only
\* when its own progress has reached 1 or an animate call on its attribute
\* replaces it.
C26_AnimateDuringUpdate ==
    [][/\ last'.op \in TickStepOps => last'.status = "returned"
       /\ \A n \in Nodes : \A d \in Range(animations[n]) :
             \/ d \in Range(animations'[n])
             \/ last'.op = "animate" /\ last'.node = n /\ last'.event = d.prop
             \/ RGeq(Rat(now - d.start_time, d.duration), One)]_vars

====
